---- MODULE Spec2Model ----
(***************************************************************************)
(* Donation payment lifecycle of sdarmitalia-server: the donation ledger   *)
(* (models/donazioniModel.js), the donation controller                     *)
(* (controller/projectPhaseController.js, lines 422-951), the payment      *)
(* input middleware (middleware/donationMiddleware.js) and the gateway     *)
(* (Stripe) as the environment.                                            *)
(*                                                                         *)
(* Money: a request's importo is a decimal number of euros; the model      *)
(* carries it in thousandths of a euro ("mills") so that 0.001 and 12.50   *)
(* are representable as integers.                                          *)
(* Time: `now` is the server clock; every `new Date()` reads it.           *)
(* Gateway payloads have the shape the handlers read: a payment intent     *)
(* carries charges.data (possibly empty), a charge carries id.             *)
(***************************************************************************)
EXTENDS Integers, Sequences, FiniteSets, TLC

\* ---------------------------------------------------------------- bounds
MaxIntents == 1      \* payment intents this endpoint creates at the gateway
MaxTime == 1         \* clock ticks
MaxClock == 4        \* clock ticks of the rate limiter's runs
MaxCount == 4        \* requests one client makes inside one window
MaxRows == 61        \* donations in the ledgers the read endpoints are run on
MaxFile == 4         \* tokens of the log files the logger starts from

\* ------------------------------------------------------------- constants
NoDate == -1                 \* dataProcessamento / dataPagamento: null
ForeignIntent == 0           \* an intent this endpoint never created
NoId == -1                   \* confirm-payment body without paymentIntentId
MillsPerEuro == 1000
MaxEuro == 100000            \* donationMiddleware.js: importo > 100000
NoCharge == "none"           \* charges.data is empty: data[0]?.id undefined
NoError == ""                \* last_payment_error absent
NoMessage == ""              \* messaggio undefined
DefaultError == "Pagamento rifiutato"
RefundMessage == "Rimborso elaborato: true"
NoAttempts == 0              \* metadata has no attempts key

ChargeOf(i) == "ch_" \o ToString(i)

validCategories == {"generale", "chiesa", "progetti", "educazione",
                    "carita", "missioni"}

\* The edges of the status graph (spec section 4.2).
AllowedEdges == {<<"pending", "processing">>, <<"processing", "completed">>,
                 <<"processing", "failed">>, <<"completed", "refunded">>,
                 <<"pending", "cancelled">>, <<"processing", "cancelled">>}

VARIABLES
  ledger,     \* the donazioni collection: a sequence of rows, _id = index
  intents,    \* gateway: how many intents this endpoint created (ids 1..)
  inflight,   \* the create-payment-intent request awaiting Donazione.create
  now,        \* the clock
  auditLog,   \* the day's transaction log (utils/transactionLogger.js)
  last,       \* the last completed request
  limiter,    \* a SimpleRateLimiter: maxRequests, windowMs and its store
  limOut,     \* what the last call on the limiter answered
  writers,    \* the logTransaction calls under way, one per caller
  dayRead     \* what the last readDayTransactions call returned

vars == <<ledger, intents, inflight, now, auditLog, last, limiter, limOut,
          writers, dayRead>>

\* ------------------------------------------------------------- requests
\* Bodies of create-payment-intent requests.
Requests ==
  { [importo |-> 50000, nome |-> "Ann Lee", anonimo |-> TRUE,
     categoria |-> "chiesa", messaggio |-> "ciao"],
    [importo |-> 12500, nome |-> "Cy Poe", anonimo |-> FALSE,
     categoria |-> "generale", messaggio |-> NoMessage],
    [importo |-> 12345, nome |-> "Bo Roy", anonimo |-> FALSE,
     categoria |-> "generale", messaggio |-> NoMessage],
    [importo |-> 1, nome |-> "Di Low", anonimo |-> FALSE,
     categoria |-> "generale", messaggio |-> NoMessage],
    [importo |-> 0, nome |-> "Ed Nil", anonimo |-> FALSE,
     categoria |-> "generale", messaggio |-> NoMessage],
    [importo |-> 100000001, nome |-> "Fay Big", anonimo |-> FALSE,
     categoria |-> "generale", messaggio |-> NoMessage],
    [importo |-> 50000, nome |-> "Gus Cat", anonimo |-> FALSE,
     categoria |-> "altro", messaggio |-> NoMessage] }

GatewayErrors == {"StripeAuthenticationError", "StripePermissionError",
                  "StripeInvalidRequestError", "StripeRateLimitError",
                  "StripeConnectionError"}

\* Intent ids a webhook or a confirm request can name.
KnownIntents == {ForeignIntent} \cup (1..intents)

MetaAttempts == {NoAttempts}

\* Webhook events: type and data.object (a payment intent with its latest
\* charge, last_payment_error and metadata.attempts, or a charge).
Events ==
  { [type |-> "payment_intent.succeeded", id |-> i, charge |-> ChargeOf(i),
     err |-> NoError, attempts |-> NoAttempts] : i \in KnownIntents }
  \cup
  [type : {"payment_intent.payment_failed"}, id : KnownIntents,
   charge : {NoCharge}, err : {NoError, "card_declined"},
   attempts : MetaAttempts]
  \cup
  { [type |-> "charge.refunded", id |-> i, charge |-> ChargeOf(i),
     err |-> NoError, attempts |-> NoAttempts] : i \in KnownIntents }
  \cup
  { [type |-> "customer.created", id |-> ForeignIntent,
     charge |-> NoCharge, err |-> NoError, attempts |-> NoAttempts] }

NoEvent == [type |-> "none", id |-> NoId, charge |-> NoCharge,
            err |-> NoError, attempts |-> NoAttempts]

\* ----------------------------------------------------------- the ledger
\* Donazione.findOneAndUpdate's filter: the first row matching, 0 if none.
FindByIntent(l, id) ==
  IF \E i \in 1..Len(l) : l[i].stripePaymentIntentId = id
  THEN CHOOSE i \in 1..Len(l) :
         /\ l[i].stripePaymentIntentId = id
         /\ \A j \in 1..(i - 1) : l[j].stripePaymentIntentId # id
  ELSE 0

FindByCharge(l, ch) ==
  IF \E i \in 1..Len(l) : l[i].stripeChargeId = ch
  THEN CHOOSE i \in 1..Len(l) :
         /\ l[i].stripeChargeId = ch
         /\ \A j \in 1..(i - 1) : l[j].stripeChargeId # ch
  ELSE 0

\* handlePaymentSuccess recording each delivery for an already completed
\* donation as a further completed row.
handlePaymentSuccess_Insert(l, pi, t, dbOk) ==
  LET i == FindByIntent(l, pi.id) IN
  IF ~dbOk \/ i = 0 THEN l
  ELSE IF l[i].status = "completed"
  THEN Append(l, [l[i] EXCEPT !.dataPagamento = t, !.dataProcessamento = t])
  ELSE [l EXCEPT ![i] =
          [@ EXCEPT !.status = "completed",
                    !.stripeChargeId =
                       IF pi.charge = NoCharge THEN @ ELSE pi.charge,
                    !.dataPagamento = t,
                    !.dataProcessamento = t]]

\* A row after an update that sets the given fields (Mongoose drops keys
\* whose value is undefined, so an absent charge id leaves the field alone).
\* handlePaymentSuccess: projectPhaseController.js 864-884.  dbOk = FALSE is
\* a rejected findOneAndUpdate, caught by the handler's own try/catch.
handlePaymentSuccess(l, pi, t, dbOk) ==
  LET i == FindByIntent(l, pi.id) IN
  IF ~dbOk \/ i = 0 THEN l
  ELSE [l EXCEPT ![i] =
          [@ EXCEPT !.status = "completed",
                    !.stripeChargeId =
                       IF pi.charge = NoCharge THEN @ ELSE pi.charge,
                    !.dataPagamento = t,
                    !.dataProcessamento = t]]

\* (paymentIntent.metadata?.attempts || 0) + 1: gateway metadata values are
\* strings, so a present value is concatenated with "1" and cast back to a
\* Number by the schema; an absent one gives 0 + 1.
TentativiFrom(a) == IF a = NoAttempts THEN 1 ELSE a * 10 + 1

\* handlePaymentFailed ignoring last_payment_error.message.
handlePaymentFailed_NoMessage(l, pi, t, dbOk) ==
  LET i == FindByIntent(l, pi.id) IN
  IF ~dbOk \/ i = 0 THEN l
  ELSE [l EXCEPT ![i] =
          [@ EXCEPT !.status = "failed",
                    !.stripeErrorMessage = DefaultError,
                    !.tentativi = TentativiFrom(pi.attempts),
                    !.dataProcessamento = t]]

\* handlePaymentFailed: projectPhaseController.js 890-913.
handlePaymentFailed(l, pi, t, dbOk) ==
  LET i == FindByIntent(l, pi.id)
      errorMessage == IF pi.err = NoError THEN DefaultError ELSE pi.err
  IN
  IF ~dbOk \/ i = 0 THEN l
  ELSE [l EXCEPT ![i] =
          [@ EXCEPT !.status = "failed",
                    !.stripeErrorMessage = errorMessage,
                    !.tentativi = TentativiFrom(pi.attempts),
                    !.dataProcessamento = t]]

\* handleRefund removing the refunded donation (findOneAndDelete).
handleRefund_Delete(l, charge, t, dbOk) ==
  LET i == FindByCharge(l, charge.charge) IN
  IF ~dbOk \/ i = 0 THEN l
  ELSE SubSeq(l, 1, i - 1) \o SubSeq(l, i + 1, Len(l))

\* handleRefund with { upsert: true }: a row is inserted when none matches.
handleRefund_Upsert(l, charge, t, dbOk) ==
  LET i == FindByCharge(l, charge.charge) IN
  IF ~dbOk THEN l
  ELSE IF i = 0
  THEN Append(l, [importo |-> 0, nome |-> "", anonimo |-> FALSE,
                  categoria |-> "generale", messaggio |-> RefundMessage,
                  stripePaymentIntentId |-> ForeignIntent,
                  status |-> "refunded", stripeChargeId |-> charge.charge,
                  stripeErrorMessage |-> NoError, tentativi |-> 0,
                  dataProcessamento |-> t, dataPagamento |-> NoDate])
  ELSE [l EXCEPT ![i] =
          [@ EXCEPT !.status = "refunded",
                    !.messaggio = RefundMessage,
                    !.dataProcessamento = t]]

\* handleRefund: projectPhaseController.js 919-938.
handleRefund(l, charge, t, dbOk) ==
  LET i == FindByCharge(l, charge.charge) IN
  IF ~dbOk \/ i = 0 THEN l
  ELSE [l EXCEPT ![i] =
          [@ EXCEPT !.status = "refunded",
                    !.messaggio = RefundMessage,
                    !.dataProcessamento = t]]

\* The event dispatch of handleWebhook: projectPhaseController.js 731-747.
Dispatch(l, ev, t, dbOk) ==
  CASE ev.type = "payment_intent.succeeded" ->
         handlePaymentSuccess(l, ev, t, dbOk)
    [] ev.type = "payment_intent.payment_failed" ->
         handlePaymentFailed(l, ev, t, dbOk)
    [] ev.type = "charge.refunded" ->
         handleRefund(l, ev, t, dbOk)
    [] OTHER -> l

\* handleWebhook handling the event parsed from the body before the
\* signature is checked.
handleWebhook_LateVerify(l, ev, secret, sig, dbOk, t) ==
  IF ~secret THEN [status |-> 400, ledger |-> l]
  ELSE IF ~sig THEN [status |-> 400, ledger |-> Dispatch(l, ev, t, dbOk)]
  ELSE [status |-> 200, ledger |-> Dispatch(l, ev, t, dbOk)]

\* handleWebhook whose handlers let a ledger error reach the outer catch.
handleWebhook_Propagate(l, ev, secret, sig, dbOk, t) ==
  IF ~secret THEN [status |-> 400, ledger |-> l]
  ELSE IF ~sig THEN [status |-> 400, ledger |-> l]
  ELSE IF ~dbOk /\ ev.type \in {"payment_intent.succeeded",
                                "payment_intent.payment_failed",
                                "charge.refunded"}
  THEN [status |-> 400, ledger |-> l]
  ELSE [status |-> 200, ledger |-> Dispatch(l, ev, t, dbOk)]

\* handleWebhook: projectPhaseController.js 713-755.  secret: the webhook
\* secret is configured; sig: stripe.webhooks.constructEvent accepts the
\* payload and its signature (it throws otherwise, into the catch block).  The result is the response status and
\* the ledger the request leaves.
handleWebhook(l, ev, secret, sig, dbOk, t) ==
  IF ~secret THEN [status |-> 400, ledger |-> l]
  ELSE IF ~sig THEN [status |-> 400, ledger |-> l]
  ELSE [status |-> 200, ledger |-> Dispatch(l, ev, t, dbOk)]

\* Donazione.getStats: donazioniModel.js 497-544 (the recurring count is
\* left out: no row written by the endpoints is of tipo 'ricorrente').
RECURSIVE SumImporto(_, _)
SumImporto(l, S) ==
  IF S = {} THEN 0
  ELSE LET i == CHOOSE x \in S : TRUE
       IN l[i].importo + SumImporto(l, S \ {i})

Completed(l) == {i \in 1..Len(l) : l[i].status = "completed"}

getStats(l) ==
  LET C == Completed(l)
      n == Cardinality(C)
      total == SumImporto(l, C)
      cats == {l[i].categoria : i \in C}
  IN [totalDonations |-> total,
      donationCount |-> n,
      averageDonation |-> IF n = 0 THEN 0 ELSE (2 * total + n) \div (2 * n),
      failedPayments |->
        Cardinality({i \in 1..Len(l) : l[i].status = "failed"}),
      byCategory |->
        [c \in cats |->
           LET Cc == {i \in C : l[i].categoria = c}
           IN [total |-> SumImporto(l, Cc), count |-> Cardinality(Cc)]]]

\* ------------------------------------------------ the transaction logger
\* utils/transactionLogger.js.  The day's log file is a sequence of
\* tokens: Header stands for the text `[${timestamp}] [${TYPE}] ` that
\* opens a line, "{" and "}" for the braces of JSON text (a "{" inside an
\* object opens the object value of a member), NewLine for "\n", Blank
\* for white space, and every other token for one member of an object.
Header == "[h]"
NewLine == "\n"
Blank == " "

\* fs.existsSync(filePath) is false: the day has no log file.
NoFile == <<"ENOENT">>

\* The calls of the helpers logDonation, logPaymentIntent,
\* logPaymentConfirmation, logPaymentError and logWebhookEvent: the type
\* and the data they hand to logTransaction (the status member; a member
\* whose value is undefined is left out by JSON.stringify).
LogCalls ==
  {[type |-> "DONATION", data |-> <<"processing">>],
   [type |-> "PAYMENT_INTENT", data |-> <<"requires_payment_method">>],
   [type |-> "PAYMENT_CONFIRMATION", data |-> <<"succeeded">>],
   [type |-> "PAYMENT_ERROR", data |-> <<>>],
   [type |-> "WEBHOOK", data |-> <<"succeeded">>]}

\* JSON.stringify of an object with the members e.
JSONstringify(e) == <<"{">> \o e \o <<"}">>

\* How many objects are open after the first k tokens of txt.
Depth(txt, k) ==
  Cardinality({i \in 1..k : txt[i] = "{"})
    - Cardinality({i \in 1..k : txt[i] = "}"})

\* txt is the text of one JSON object: it opens with a brace that its
\* last token closes, and holds members, objects and white space only.
IsObject(txt) ==
  /\ Len(txt) >= 2
  /\ txt[1] = "{"
  /\ txt[Len(txt)] = "}"
  /\ \A k \in 1..(Len(txt) - 1) : Depth(txt, k) >= 1
  /\ Depth(txt, Len(txt)) = 0
  /\ \A i \in 1..Len(txt) : txt[i] # Header

NotBlank(tok) == tok # Blank

\* What a failed parse or match leaves in the mapped array.
Null == <<"null">>

\* JSON.parse(txt): the members of the object, or Null where it throws.
JSONparse(txt) ==
  IF IsObject(txt)
  THEN SelectSeq(SubSeq(txt, 2, Len(txt) - 1), NotBlank)
  ELSE Null

\* logTransaction, 63-70: logEntry = { type: logType, ...data } and
\* logLine = `[${timestamp}] [${TYPE}] ${JSON.stringify(logEntry)}\n`.
logEntry(call) == <<call.type>> \o call.data

logLine(call) == <<Header>> \o JSONstringify(logEntry(call)) \o <<NewLine>>

\* fs.writeFileSync(logFilePath, logLine): the file is replaced.
appendFileSync_Truncate(file, line) == line

\* fs.appendFileSync(logFilePath, logLine): the line is added at the end
\* of the file, which is created when missing.
appendFileSync(file, line) ==
  IF file = NoFile THEN line ELSE file \o line

\* fileContent.split('\n')
RECURSIVE Split(_)
Split(txt) ==
  IF \A i \in 1..Len(txt) : txt[i] # NewLine THEN <<txt>>
  ELSE LET i == CHOOSE j \in 1..Len(txt) :
                  /\ txt[j] = NewLine
                  /\ \A k \in 1..(j - 1) : txt[k] # NewLine
       IN <<SubSeq(txt, 1, i - 1)>> \o Split(SubSeq(txt, i + 1, Len(txt)))

\* line.trim() is not empty.
Trimmed(line) == \E i \in 1..Len(line) : line[i] # Blank

\* line.match(/\{.*\}$/): the text from the first "{" to the end of a line
\* that ends with "}"; NoMatch otherwise.
NoMatch == <<>>
Match(line) ==
  IF /\ Len(line) >= 2
     /\ line[Len(line)] = "}"
     /\ \E i \in 1..(Len(line) - 1) : line[i] = "{"
  THEN LET i == CHOOSE j \in 1..(Len(line) - 1) :
                  /\ line[j] = "{"
                  /\ \A k \in 1..(j - 1) : line[k] # "{"
       IN SubSeq(line, i, Len(line))
  ELSE NoMatch

\* The callback of lines.map(...), 200-211.
ParseLine(line) ==
  IF Match(line) = NoMatch THEN Null ELSE JSONparse(Match(line))

Truthy(x) == x # Null

\* readDayTransactions with one try around the whole read: a line that
\* does not parse empties the result.
readDayTransactions_Abort(file) ==
  IF file = NoFile THEN <<>>
  ELSE LET lines == SelectSeq(Split(file), Trimmed)
           mapped == [i \in 1..Len(lines) |-> ParseLine(lines[i])]
       IN IF \E i \in 1..Len(mapped) : mapped[i] = Null THEN <<>>
          ELSE mapped

\* readDayTransactions: transactionLogger.js 187-216.
readDayTransactions(file) ==
  IF file = NoFile THEN <<>>
  ELSE LET lines == SelectSeq(Split(file), Trimmed)
           mapped == [i \in 1..Len(lines) |-> ParseLine(lines[i])]
       IN SelectSeq(mapped, Truthy)

Has(tx, tok) == \E i \in 1..Len(tx) : tx[i] = tok

\* getTransactionStats: transactionLogger.js 223-252.
getTransactionStats(log) ==
  LET transactions == readDayTransactions(log) IN
  [totalTransactions |-> Len(transactions),
   successfulPayments |->
     Cardinality({i \in 1..Len(transactions) :
                    /\ Has(transactions[i], "PAYMENT_CONFIRMATION")
                    /\ Has(transactions[i], "succeeded")}),
   failedPayments |->
     Cardinality({i \in 1..Len(transactions) :
                    /\ ~(/\ Has(transactions[i], "PAYMENT_CONFIRMATION")
                          /\ Has(transactions[i], "succeeded"))
                    /\ Has(transactions[i], "PAYMENT_ERROR")})]

\* The callers of logTransaction, a request handler and a webhook handler
\* running side by side, the helpers each would call, and where each is
\* in its call.
Writers == {"w1", "w2"}
CallsOf ==
  [w1 |-> {c \in LogCalls : c.type \in {"DONATION", "PAYMENT_INTENT",
                                        "PAYMENT_CONFIRMATION"}},
   w2 |-> {c \in LogCalls : c.type \in {"WEBHOOK", "PAYMENT_ERROR"}}]
NoLogCall == [type |-> "", data |-> <<>>]
Idle == [pc |-> "idle", call |-> NoLogCall, line |-> <<>>]
NoWriters == [w \in Writers |-> Idle]

\* No readDayTransactions call was made yet.
NoRead == <<<<"none">>>>

\* The row a webhook event is about, 0 if there is none.
Target(l, ev) ==
  IF ev.type \in {"payment_intent.succeeded", "payment_intent.payment_failed"}
  THEN FindByIntent(l, ev.id)
  ELSE IF ev.type = "charge.refunded" THEN FindByCharge(l, ev.charge)
  ELSE 0

StatusOf(l, i) == IF i = 0 THEN "none" ELSE l[i].status

\* The record of a completed request: which endpoint, the response status,
\* what the gateway answered to a create-intent or retrieve call ("none":
\* not called),
\* and for a webhook whether its signature verified, whether the ledger
\* call failed, the event, the status its row had before, and whether it
\* redelivers the event of the request before it.
\* The response body is kept in `body`; an error response of the donation
\* endpoints is { success: false, message }.
Failure == [success |-> FALSE]

NoRequest == [op |-> "none", status |-> 0, gateway |-> "none",
              verified |-> FALSE, dbError |-> FALSE, ev |-> NoEvent,
              prevStatus |-> "none", replay |-> FALSE, body |-> Failure]

\* No create-payment-intent request is between its gateway call and its
\* ledger write.
NoInflight == [req |-> [importo |-> 0, nome |-> "", anonimo |-> FALSE,
                        categoria |-> "", messaggio |-> NoMessage],
               intent |-> ForeignIntent, amount |-> 0]

\* ------------------------------------------------------ the rate limiter
\* SimpleRateLimiter: middleware/rateLimiter.js (src/unnamed/part_007,
\* 275-412).  The limiter's clock is Date.now() in milliseconds; one tick of
\* `now` is half a second.
MsPerTick == 500
MsPerSecond == 1000

DateNow(t) == t * MsPerTick

\* Math.ceil(a / b) for b > 0.
Ceil(a, b) == IF a >= 0 THEN (a + b - 1) \div b ELSE -((-a) \div b)

Clients == {"10.0.0.1", "10.0.0.2"}

\* this.store = new Map()
EmptyStore == [c \in {} |-> [count |-> 0, resetTime |-> 0]]

\* new SimpleRateLimiter(maxRequests, windowMs)
SimpleRateLimiter(maxRequests, windowMs) ==
  [maxRequests |-> maxRequests, windowMs |-> windowMs, store |-> EmptyStore]

\* The pre-configured lenient limiter: 500 requests per 15 minutes.
lenientLimiter == SimpleRateLimiter(500, 15 * 60 * 1000)

\* The limiters the limiter's runs start from.
LimiterConfigs ==
  {SimpleRateLimiter(m, w) : m \in {1, 2}, w \in {MsPerTick, 2 * MsPerTick}}

\* The limit check taking the request that reaches the limit as over it.
Exceeded_Inclusive(count, maxRequests) == count >= maxRequests

\* if (clientData.count > this.maxRequests)
Exceeded(count, maxRequests) == count > maxRequests

\* No Retry-After: the request was passed on.
NoRetry == -1

\* middleware() keeping one record for all clients: every request is
\* counted under the first key of the store.
middleware_Shared(lm, ip, t) ==
  LET old == lm.store
      key == IF DOMAIN old = {} THEN ip ELSE CHOOSE c \in DOMAIN old : TRUE
      fresh == key \notin DOMAIN old \/ t > old[key].resetTime
      base == IF fresh THEN [count |-> 0, resetTime |-> t + lm.windowMs]
              ELSE old[key]
      clientData == [base EXCEPT !.count = @ + 1]
      limited == Exceeded(clientData.count, lm.maxRequests)
  IN [store |-> [c \in {key} |-> clientData],
      next |-> ~limited,
      status |-> IF limited THEN 429 ELSE 200,
      retryAfter |-> IF limited
                     THEN Ceil(clientData.resetTime - t, MsPerSecond)
                     ELSE NoRetry,
      limit |-> lm.maxRequests,
      current |-> clientData.count,
      remaining |-> IF lm.maxRequests - clientData.count > 0
                    THEN lm.maxRequests - clientData.count ELSE 0,
      reset |-> Ceil(clientData.resetTime, MsPerSecond)]

\* The handler middleware() returns, called for client ip at time t (ms):
\* the store it leaves, whether it called next(), and the response status,
\* retryAfter, headers and rateLimitInfo.
middleware(lm, ip, t) ==
  LET old == lm.store
      fresh == ip \notin DOMAIN old \/ t > old[ip].resetTime
      base == IF fresh THEN [count |-> 0, resetTime |-> t + lm.windowMs]
              ELSE old[ip]
      clientData == [base EXCEPT !.count = @ + 1]
      limited == Exceeded(clientData.count, lm.maxRequests)
  IN [store |-> [c \in DOMAIN old \cup {ip} |->
                   IF c = ip THEN clientData ELSE old[c]],
      next |-> ~limited,
      status |-> IF limited THEN 429 ELSE 200,
      retryAfter |-> IF limited
                     THEN Ceil(clientData.resetTime - t, MsPerSecond)
                     ELSE NoRetry,
      limit |-> lm.maxRequests,
      current |-> clientData.count,
      remaining |-> IF lm.maxRequests - clientData.count > 0
                    THEN lm.maxRequests - clientData.count ELSE 0,
      reset |-> Ceil(clientData.resetTime, MsPerSecond)]

\* reset(ip) clearing the whole store.
reset_Clear(lm, ip) ==
  [store |-> EmptyStore, result |-> ip \in DOMAIN lm.store]

\* reset(ip): this.store.delete(ip), which answers whether ip was a key.
reset(lm, ip) ==
  [store |-> [c \in DOMAIN lm.store \ {ip} |-> lm.store[c]],
   result |-> ip \in DOMAIN lm.store]

\* resetAll(): this.store.clear()
resetAll(lm) == EmptyStore

\* The record of a call on the limiter.
NoCall == [op |-> "none", client |-> "", next |-> FALSE, status |-> 0,
           retryAfter |-> NoRetry, current |-> 0, remaining |-> 0,
           limit |-> 0, reset |-> 0, result |-> FALSE]

Init ==
  /\ ledger = <<>>
  /\ intents = 0
  /\ inflight = NoInflight
  /\ now = 0
  /\ auditLog = <<>>
  /\ last = NoRequest
  /\ limiter = lenientLimiter
  /\ limOut = NoCall
  /\ writers = NoWriters
  /\ dayRead = NoRead

\* The clock is read only to stamp rows; a tick is taken once the current
\* instant has stamped a row (idle ticks change the stamps' values, not
\* their order).
Tick ==
  /\ now < MaxTime
  /\ \E i \in 1..Len(ledger) : ledger[i].dataProcessamento = now
  /\ now' = now + 1
  /\ UNCHANGED <<ledger, intents, inflight, auditLog, last, limiter, limOut,
                 writers, dayRead>>

\* validatePaymentInput: middleware/donationMiddleware.js 50-146, on the
\* fields the model carries (importo in mills, categoria).
validatePaymentInput(req) ==
  /\ req.importo # 0
  /\ ~(req.importo <= 0 \/ req.importo > MaxEuro * MillsPerEuro)
  /\ req.categoria \in validCategories

\* Math.round(importo * 100): projectPhaseController.js 477.
amountInCents(importo) == (importo + 5) \div 10

\* The controller's own validation: projectPhaseController.js 466-536.
ControllerValid(req) ==
  /\ ~(req.importo = 0 \/ req.importo <= 0)
  /\ ~(amountInCents(req.importo) < 1)
  /\ req.categoria \in validCategories

\* The catch block answering 401 to a permission error as well.
ErrorStatus_AuthOnly(type) ==
  CASE type = "StripeAuthenticationError" -> 401
    [] type = "StripePermissionError" -> 401
    [] type = "StripeInvalidRequestError" -> 400
    [] type = "StripeRateLimitError" -> 429
    [] OTHER -> 500

\* The catch block of createPaymentIntent: projectPhaseController.js 587-625.
ErrorStatus(type) ==
  CASE type = "StripeAuthenticationError" -> 401
    [] type = "StripePermissionError" -> 403
    [] type = "StripeInvalidRequestError" -> 400
    [] type = "StripeRateLimitError" -> 429
    [] OTHER -> 500

\* The schema's validators for importo: donazioniModel.js 59-70.  The
\* controller passes importo in euros (line 559).
SchemaValid(importo) ==
  /\ importo >= 1 * MillsPerEuro
  /\ importo % MillsPerEuro = 0

\* The row Donazione.create writes: projectPhaseController.js 558-570.
NewRow(req, intent, t) ==
  [importo |-> req.importo \div MillsPerEuro,
   nome |-> req.nome,
   anonimo |-> req.anonimo,
   categoria |-> req.categoria,
   messaggio |-> req.messaggio,
   stripePaymentIntentId |-> intent,
   status |-> "processing",
   stripeChargeId |-> NoCharge,
   stripeErrorMessage |-> NoError,
   tentativi |-> 0,
   dataProcessamento |-> t,
   dataPagamento |-> NoDate]

Done(op, status) ==
  [NoRequest EXCEPT !.op = op, !.status = status]

\* process.env.BENEFICIARY_IBAN, a string of characters.
BENEFICIARY_IBAN == <<"I", "T", "6", "0", "X", "1", "2", "3", "4">>

Mask == <<"*", "*", "*", "*">>

\* maskIBAN: projectPhaseController.js 946-949.
maskIBAN(iban) ==
  IF Len(iban) = 0 \/ Len(iban) < 4 THEN Mask
  ELSE Mask \o SubSeq(iban, Len(iban) - 3, Len(iban))

\* The 200 response of createPaymentIntent: projectPhaseController.js
\* 574-586.  amount is (amountInCents / 100).toFixed(2), carried in cents.
CreateResponse(intent, donationId, amount) ==
  [success |-> TRUE, paymentIntentId |-> intent, donationId |-> donationId,
   amount |-> amount, beneficiary |-> [iban |-> maskIBAN(BENEFICIARY_IBAN)]]

\* POST /api/donazioni/create-payment-intent, up to the gateway's answer
\* (projectPhaseController.js 453-554): validation, then
\* stripe.paymentIntents.create, which answers, fails with an error type, or
\* is lost after the gateway created the intent (a timeout).
CreateRejected ==
  /\ \E req \in Requests : ~(validatePaymentInput(req) /\ ControllerValid(req))
  /\ last' = Done("create", 400)
  /\ UNCHANGED <<ledger, intents, inflight, now, auditLog, limiter, limOut,
                 writers, dayRead>>

CreateGatewayOk ==
  \E req \in Requests :
    /\ validatePaymentInput(req) /\ ControllerValid(req)
    /\ intents < MaxIntents
    /\ inflight = NoInflight
    /\ intents' = intents + 1
    /\ inflight' = [req |-> req, intent |-> intents + 1,
                    amount |-> amountInCents(req.importo)]
    /\ UNCHANGED <<ledger, now, auditLog, last, limiter, limOut, writers,
                   dayRead>>

CreateGatewayFails ==
  /\ \E req \in Requests : validatePaymentInput(req) /\ ControllerValid(req)
  /\ \E type \in GatewayErrors,
        created \in {FALSE} \cup {c \in {TRUE} : intents < MaxIntents} :
       /\ created => type = "StripeConnectionError"
       /\ intents' = IF created THEN intents + 1 ELSE intents
       /\ last' = [Done("create", ErrorStatus(type)) EXCEPT !.gateway = type]
  /\ UNCHANGED <<ledger, inflight, now, auditLog, limiter, limOut, writers,
                 dayRead>>

\* The rest of the request (projectPhaseController.js 556-586 and the catch
\* block): Donazione.create, then the response.
CreateSave ==
  \E dbOk \in BOOLEAN :
    /\ inflight # NoInflight
    /\ inflight' = NoInflight
    /\ IF dbOk /\ SchemaValid(inflight.req.importo)
       THEN /\ ledger' = Append(ledger,
                                NewRow(inflight.req, inflight.intent, now))
            /\ last' = [Done("create", 200) EXCEPT
                          !.gateway = "ok",
                          !.body = CreateResponse(inflight.intent,
                                                  Len(ledger) + 1,
                                                  inflight.amount)]
       ELSE /\ ledger' = ledger
            /\ last' = [Done("create", ErrorStatus("none"))
                          EXCEPT !.gateway = "ok"]
    /\ UNCHANGED <<intents, now, auditLog, limiter, limOut, writers,
                   dayRead>>

GatewayStatus == {"succeeded", "requires_action", "requires_payment_method",
                  "error"}

\* confirmPayment completing the donation whatever status the gateway
\* reports for the intent.
confirmPayment_Trusting(l, id, gw, charge, t, dbOk) ==
  IF id = NoId THEN [status |-> 400, ledger |-> l, body |-> Failure]
  ELSE IF gw = "error" THEN [status |-> 500, ledger |-> l, body |-> Failure]
  ELSE IF ~dbOk THEN [status |-> 500, ledger |-> l, body |-> Failure]
  ELSE LET i == FindByIntent(l, id) IN
       IF i = 0 THEN [status |-> 404, ledger |-> l, body |-> Failure]
       ELSE [status |-> 200,
             ledger |->
               [l EXCEPT ![i] =
                  [@ EXCEPT !.status = "completed",
                            !.stripeChargeId =
                               IF charge = NoCharge THEN @ ELSE charge,
                            !.dataPagamento = t,
                            !.dataProcessamento = t]],
             body |->
               [success |-> TRUE,
                donation |->
                  [id |-> i, amount |-> l[i].importo,
                   status |-> "completed",
                   recipientName |-> IF l[i].anonimo THEN "Anonimo"
                                     ELSE l[i].nome]]]

\* confirmPayment: projectPhaseController.js 639-701.  gw is what
\* stripe.paymentIntents.retrieve answers ("error": it throws).
confirmPayment(l, id, gw, charge, t, dbOk) ==
  IF id = NoId THEN [status |-> 400, ledger |-> l, body |-> Failure]
  ELSE IF gw = "error" THEN [status |-> 500, ledger |-> l, body |-> Failure]
  ELSE IF gw = "succeeded"
  THEN IF ~dbOk THEN [status |-> 500, ledger |-> l, body |-> Failure]
       ELSE LET i == FindByIntent(l, id) IN
            IF i = 0 THEN [status |-> 404, ledger |-> l, body |-> Failure]
            ELSE [status |-> 200,
                  ledger |->
                    [l EXCEPT ![i] =
                       [@ EXCEPT !.status = "completed",
                                 !.stripeChargeId =
                                    IF charge = NoCharge THEN @ ELSE charge,
                                 !.dataPagamento = t,
                                 !.dataProcessamento = t]],
                  body |->
                    [success |-> TRUE,
                     donation |->
                       [id |-> i, amount |-> l[i].importo,
                        status |-> "completed",
                        recipientName |-> IF l[i].anonimo THEN "Anonimo"
                                          ELSE l[i].nome]]]
  ELSE [status |-> 400, ledger |-> l, body |-> Failure]

\* POST /api/donazioni/confirm-payment
ConfirmPayment ==
  \E id \in KnownIntents \cup {NoId}, gw \in GatewayStatus,
     dbOk \in BOOLEAN :
    /\ (id = NoId) => (gw = "error")
    /\ (~dbOk) => (id # NoId /\ gw = "succeeded")
    /\ LET r == confirmPayment(ledger, id, gw, ChargeOf(id), now, dbOk)
       IN /\ ledger' = r.ledger
          /\ last' = [Done("confirm", r.status) EXCEPT
                        !.gateway = IF id = NoId THEN "none" ELSE gw,
                        !.body = r.body]
    /\ UNCHANGED <<intents, inflight, now, auditLog, limiter, limOut,
                   writers, dayRead>>

\* What a webhook request meets: <<secret configured, signature accepted,
\* ledger call succeeds>>; a later failure is moot after an earlier one.
WebhookEnv == {<<FALSE, TRUE, TRUE>>, <<TRUE, FALSE, TRUE>>,
               <<TRUE, TRUE, FALSE>>, <<TRUE, TRUE, TRUE>>}

\* The deliveries: every event with every environment.  Without a secret
\* the handler returns before it reads the request, and a rejected
\* signature or a failing ledger call ends the request whatever the event
\* says, so one event type (two where the dispatch tells handled types
\* from the others) stands for all there.
Deliveries ==
  {d \in Events \X WebhookEnv :
     /\ d[2][1] \/ d[1].type = "customer.created"
     /\ d[2][2] \/ d[1].type = "payment_intent.succeeded"
     /\ d[2][3] \/ d[1].type \in {"payment_intent.succeeded",
                                  "customer.created"}}

\* POST /api/donazioni/webhook
Webhook ==
  \E d \in Deliveries :
    LET ev == d[1]
        secret == d[2][1]
        sig == d[2][2]
        dbOk == d[2][3]
        r == handleWebhook(ledger, ev, secret, sig, dbOk, now)
        verified == secret /\ sig
    IN
    /\ ledger' = r.ledger
    /\ last' = [op |-> "webhook", status |-> r.status, gateway |-> "none",
                verified |-> verified,
                dbError |-> verified /\ ~dbOk,
                ev |-> IF verified THEN ev ELSE NoEvent,
                prevStatus |-> IF verified
                               THEN StatusOf(ledger, Target(ledger, ev))
                               ELSE "none",
                replay |-> /\ last.op = "webhook" /\ last.verified
                           /\ ~last.dbError /\ last.ev = ev
                           /\ verified /\ dbOk,
                body |-> IF r.status = 200 THEN [received |-> TRUE]
                         ELSE Failure]
    /\ UNCHANGED <<intents, inflight, now, auditLog, limiter, limOut,
                   writers, dayRead>>

\* ------------------------------------------------------- read endpoints
\* The limit query parameter of GET /recent, a string of characters;
\* NoParam: the parameter is absent.
NoParam == <<>>
Queries == {NoParam, <<"a">>, <<"0">>, <<"1">>, <<"5", "1">>,
            <<"-", "6", "0">>}

DigitChars == {"0", "1", "2", "3", "4", "5", "6", "7", "8", "9"}

DigitVal(c) ==
  CASE c = "0" -> 0 [] c = "1" -> 1 [] c = "2" -> 2 [] c = "3" -> 3
    [] c = "4" -> 4 [] c = "5" -> 5 [] c = "6" -> 6 [] c = "7" -> 7
    [] c = "8" -> 8 [] c = "9" -> 9

RECURSIVE ParseDigits(_, _, _)
ParseDigits(q, i, acc) ==
  IF i > Len(q) \/ q[i] \notin DigitChars THEN acc
  ELSE ParseDigits(q, i + 1, acc * 10 + DigitVal(q[i]))

\* parseInt: an optional sign and the leading digits, NaN without a digit.
parseInt(q) ==
  LET neg == Len(q) > 0 /\ q[1] = "-"
      start == IF neg THEN 2 ELSE 1
  IN IF start > Len(q) \/ q[start] \notin DigitChars
     THEN [nan |-> TRUE, val |-> 0]
     ELSE [nan |-> FALSE,
           val |-> IF neg THEN -ParseDigits(q, start, 0)
                   ELSE ParseDigits(q, start, 0)]

DefaultLimit == 10
MaxLimit == 50

\* Math.min(parseInt(req.query.limit) || 10, 50)
RecentLimit(q) ==
  LET p == parseInt(q)
      n == IF p.nan \/ p.val = 0 THEN DefaultLimit ELSE p.val
  IN IF n < MaxLimit THEN n ELSE MaxLimit

\* .sort({ dataPagamento: -1 }): latest first, equal dates in _id order.
RECURSIVE SortByDate(_, _)
SortByDate(l, S) ==
  IF S = {} THEN <<>>
  ELSE LET i == CHOOSE x \in S :
                  \A y \in S : \/ l[x].dataPagamento > l[y].dataPagamento
                               \/ /\ l[x].dataPagamento = l[y].dataPagamento
                                  /\ x <= y
       IN <<i>> \o SortByDate(l, S \ {i})

\* .limit(n) of a find: the first n documents; the driver sends a negative
\* n as its absolute value (in a single batch) and 0 as no limit.
Limit(rows, n) ==
  LET k == IF n < 0 THEN -n ELSE n
  IN IF k = 0 \/ k >= Len(rows) THEN rows ELSE SubSeq(rows, 1, k)

\* The rows Donazione.find({ status: 'completed' }).limit(limit).sort(...)
\* answers, as _ids.
RecentRows(l, q) == Limit(SortByDate(l, Completed(l)), RecentLimit(q))

\* getRecentDonations returning d.nome whatever d.anonimo is.
getRecentDonations_ShowName(l, q) ==
  LET rows == RecentRows(l, q) IN
  [status |-> 200,
   body |-> [success |-> TRUE, count |-> Len(rows),
             donations |->
               [k \in 1..Len(rows) |->
                  [name |-> l[rows[k]].nome,
                   amount |-> l[rows[k]].importo,
                   date |-> l[rows[k]].dataPagamento,
                   category |-> l[rows[k]].categoria]]]]

\* getRecentDonations: projectPhaseController.js 799-827.  amount is
\* (importo / 100).toFixed(2), carried in cents; a row without
\* dataPagamento makes toLocaleDateString throw.
getRecentDonations(l, q) ==
  LET rows == RecentRows(l, q) IN
  IF \E k \in 1..Len(rows) : l[rows[k]].dataPagamento = NoDate
  THEN [status |-> 500, body |-> Failure]
  ELSE [status |-> 200,
        body |-> [success |-> TRUE, count |-> Len(rows),
                  donations |->
                    [k \in 1..Len(rows) |->
                       [name |-> IF l[rows[k]].anonimo THEN "Anonimo"
                                 ELSE l[rows[k]].nome,
                        amount |-> l[rows[k]].importo,
                        date |-> l[rows[k]].dataPagamento,
                        category |-> l[rows[k]].categoria]]]]

\* getDonationStats: projectPhaseController.js 764-790; the formatted
\* totals are total / 100 euros, carried in cents.
getDonationStats(l) ==
  [status |-> 200, body |-> [success |-> TRUE, data |-> getStats(l)]]

\* getBeneficiaryInfo: projectPhaseController.js 836-856, the account
\* fields of the response.
getBeneficiaryInfo ==
  [status |-> 200,
   body |-> [success |-> TRUE,
             beneficiary |-> [iban |-> maskIBAN(BENEFICIARY_IBAN),
                              fullIban |-> BENEFICIARY_IBAN]]]

\* GET /api/donazioni/recent?limit=q
RecentDonations ==
  \E q \in Queries, dbOk \in BOOLEAN :
    LET r == IF dbOk THEN getRecentDonations(ledger, q)
             ELSE [status |-> 500, body |-> Failure]
    IN /\ last' = [Done("recent", r.status) EXCEPT !.body = r.body]
       /\ UNCHANGED <<ledger, intents, inflight, now, auditLog, limiter,
                      limOut, writers, dayRead>>

\* GET /api/donazioni/stats
DonationStats ==
  \E dbOk \in BOOLEAN :
    LET r == IF dbOk THEN getDonationStats(ledger)
             ELSE [status |-> 500, body |-> Failure]
    IN /\ last' = [Done("stats", r.status) EXCEPT !.body = r.body]
       /\ UNCHANGED <<ledger, intents, inflight, now, auditLog, limiter,
                      limOut, writers, dayRead>>

\* GET /api/donazioni/beneficiary
BeneficiaryInfo ==
  /\ last' = [Done("beneficiary", getBeneficiaryInfo.status)
                EXCEPT !.body = getBeneficiaryInfo.body]
  /\ UNCHANGED <<ledger, intents, inflight, now, auditLog, limiter, limOut,
                 writers, dayRead>>

\* ----------------------------------- the read endpoints on their own
\* The ledgers the read endpoints are run on: n donations created by
\* createPaymentIntent, by an anonymous and a named donor in turn, at
\* successive times; every k-th is still processing or has failed, the
\* others have been completed by their payment_intent.succeeded webhook.
Donors ==
  <<[importo |-> 50000, nome |-> "Ann Lee", anonimo |-> TRUE,
     categoria |-> "chiesa", messaggio |-> "ciao"],
    [importo |-> 20000, nome |-> "Bob Ray", anonimo |-> FALSE,
     categoria |-> "missioni", messaggio |-> NoMessage]>>

Paid(i) ==
  [type |-> "payment_intent.succeeded", id |-> i, charge |-> ChargeOf(i),
   err |-> NoError, attempts |-> NoAttempts]

Declined(i) ==
  [type |-> "payment_intent.payment_failed", id |-> i, charge |-> NoCharge,
   err |-> "card_declined", attempts |-> NoAttempts]

\* Donation i of a ledger in which every k-th donation is not completed.
RowOf(i, k) ==
  LET l == <<NewRow(Donors[1 + (i % 2)], i, i % 3)>>
      t == 1 + (i % 3)
  IN IF k = 0 \/ i % k # 0 THEN handlePaymentSuccess(l, Paid(i), t, TRUE)[1]
     ELSE IF i % 2 = 0 THEN l[1]
     ELSE handlePaymentFailed(l, Declined(i), t, TRUE)[1]

LedgerOf(n, k) == [i \in 1..n |-> RowOf(i, k)]

Ledgers == {LedgerOf(n, k) : n \in 0..MaxRows, k \in {0, 2, 3}}

ReadInit ==
  /\ ledger \in Ledgers
  /\ intents = 0
  /\ inflight = NoInflight
  /\ now = 0
  /\ auditLog = <<>>
  /\ last = NoRequest
  /\ limiter = lenientLimiter
  /\ limOut = NoCall
  /\ writers = NoWriters
  /\ dayRead = NoRead

\* ----------------------------------------------------------- the routes
\* routes/donazioniRoutes.js: the middleware each request passes, in order,
\* up to its handler.
Routes ==
  [beneficiary |-> <<"getBeneficiaryInfo">>,
   recent |-> <<"getRecentDonations">>,
   stats |-> <<"getDonationStats">>,
   create |-> <<"rateLimitPayments", "validatePaymentInput",
                "createPaymentIntent">>,
   confirm |-> <<"rateLimitPayments", "confirmPayment">>,
   webhook |-> <<"express.raw", "handleWebhook">>]

\* The rate limiting middleware: rateLimitPayments (donationMiddleware.js
\* 23-34) and the limiters of rateLimiter.js.
RateLimiters == {"rateLimitPayments", "general", "strict", "critical",
                 "lenient"}

LimitersOf(op) ==
  {Routes[op][k] : k \in 1..Len(Routes[op])} \cap RateLimiters

\* A request over the limit of a limiter on its route: the limiter answers
\* 429 and the handler does not run.
RateLimited ==
  \E op \in DOMAIN Routes :
    /\ LimitersOf(op) # {}
    /\ last' = Done(op, 429)
    /\ UNCHANGED <<ledger, intents, inflight, now, auditLog, limiter,
                   limOut, writers, dayRead>>

\* ------------------------------------------------------------ the claims
HandledTypes == {"payment_intent.succeeded", "payment_intent.payment_failed",
                 "charge.refunded"}

\* C1: every change of a donation's status follows an edge of the status
\* graph (pending->processing, processing->completed, processing->failed,
\* completed->refunded, pending/processing->cancelled).
C1_StatusFollowsGraph ==
  [][\A i \in 1..Len(ledger) :
       (i <= Len(ledger') /\ ledger'[i].status # ledger[i].status)
         => <<ledger[i].status, ledger'[i].status>> \in AllowedEdges]_vars

\* C2: a second delivery of the same verified payment_intent.succeeded
\* webhook leaves the ledger row (status, charge id, dataPagamento,
\* dataProcessamento) as the first delivery left it.
C2_ReplayedSuccessLeavesRow ==
  [][(last'.replay /\ last'.ev.type = "payment_intent.succeeded")
       => ledger' = ledger]_vars

\* C3: applying a webhook event a second time leaves the donation
\* statistics (completed count, total, per-category totals, failed count)
\* and the audit totals as they were after the first application.
C3_ReplayKeepsStatistics ==
  [][last'.replay
       => /\ getStats(ledger') = getStats(ledger)
          /\ getTransactionStats(auditLog') = getTransactionStats(auditLog)]_vars

C3_Witness ==
  /\ last.replay
  /\ last.ev.type = "payment_intent.succeeded"
  /\ last.prevStatus = "completed"
  /\ getStats(ledger).donationCount = 1
  /\ getStats(ledger).totalDonations > 0

C5_UnverifiedWebhookRejected ==
  [][(last'.op = "webhook" /\ ~last'.verified)
       => (last'.status = 400 /\ ledger' = ledger)]_vars

C5_Witness ==
  /\ last.op = "webhook" /\ ~last.verified /\ last.status = 400
  /\ \E i \in 1..Len(ledger) : ledger[i].status = "processing"

\* C6: a verified webhook naming a payment intent or charge for which no
\* donation row exists is answered 200, creates no row and leaves every
\* existing row unchanged.
C6_UnknownIntentIgnored ==
  [][(/\ last'.op = "webhook" /\ last'.verified
      /\ last'.ev.type \in HandledTypes
      /\ Target(ledger, last'.ev) = 0)
       => (last'.status = 200 /\ ledger' = ledger)]_vars

C6_Witness ==
  /\ last.op = "webhook" /\ last.verified /\ ~last.dbError
  /\ last.ev.type = "payment_intent.payment_failed"
  /\ last.prevStatus = "none"
  /\ last.status = 200
  /\ Len(ledger) > 0

\* C7: once the signature has verified the webhook endpoint answers 200,
\* for handled event types, for other event types (which change nothing)
\* and when the ledger call fails; 400 is answered only to a signature that
\* did not verify.
C7_VerifiedWebhookAcknowledged ==
  [][last'.op = "webhook"
       => /\ last'.verified => last'.status = 200
          /\ last'.status = 400 => ~last'.verified
          /\ (last'.verified /\ last'.ev.type \notin HandledTypes)
               => ledger' = ledger]_vars

C7_Witness ==
  /\ last.op = "webhook" /\ last.verified /\ last.dbError
  /\ last.prevStatus = "processing"
  /\ last.status = 200

\* C8: a verified webhook whose target status is not reachable by an
\* allowed edge from the donation's current status is answered 200 and
\* leaves the donation row unchanged.
OutOfOrder(type, status) ==
  \/ /\ type \in {"payment_intent.succeeded", "payment_intent.payment_failed"}
     /\ status \in {"completed", "failed", "refunded"}
  \/ /\ type = "charge.refunded"
     /\ status \notin {"completed", "none"}

C8_OutOfOrderIgnored ==
  [][(/\ last'.op = "webhook" /\ last'.verified
      /\ last'.prevStatus = StatusOf(ledger, Target(ledger, last'.ev))
      /\ OutOfOrder(last'.ev.type, last'.prevStatus))
       => (last'.status = 200 /\ ledger' = ledger)]_vars

\* C9: the donation row is written with status pending before the gateway
\* is asked to create the intent, and moves to processing only after the
\* gateway call has succeeded.
C9_PendingRowBeforeGateway ==
  [][/\ \A i \in (Len(ledger) + 1)..Len(ledger') :
          ledger'[i].status = "pending"
     /\ intents' > intents
          => \E i \in 1..Len(ledger) : ledger[i].status = "pending"]_vars

\* C10: when the gateway's create-intent call fails, the request ends with
\* an error response and a donation row for it exists in status pending or
\* processing.
C10_RowKeptOnGatewayFailure ==
  (last.op = "create" /\ last.gateway \in GatewayErrors)
    => /\ last.status >= 400
       /\ \E i \in 1..Len(ledger) :
            ledger[i].status \in {"pending", "processing"}

\* C11: a create-payment-intent request whose amount is missing, not a
\* number, zero or negative, below one cent, not a whole number of cents or
\* above 100000 euro is answered 400 and creates neither a gateway intent
\* nor a donation row; every stored amount is a positive integer.
RejectedAmount(importo) ==
  \/ importo <= 0
  \/ importo < MillsPerEuro \div 100
  \/ importo % (MillsPerEuro \div 100) # 0
  \/ importo > MaxEuro * MillsPerEuro

C11_InvalidAmountRejected ==
  [][/\ intents' > intents =>
          \/ inflight' = NoInflight
          \/ ~RejectedAmount(inflight'.req.importo)
     /\ \A i \in 1..Len(ledger') : ledger'[i].importo > 0]_vars

\* C12: the amount stored in a donation row written by
\* create-payment-intent is the number of cents passed to the gateway for
\* its payment intent, and is the amount the response shows.
C12_StoredAmountIsGatewayCents ==
  [][(Len(ledger') > Len(ledger) /\ inflight # NoInflight) =>
       /\ ledger'[Len(ledger')].importo = inflight.amount
       /\ last'.body.amount = ledger'[Len(ledger')].importo]_vars

C20_UnknownIntentNotFound ==
  [][last'.op = "confirm" =>
       /\ (last'.gateway \in GatewayStatus \ {"error"} /\ ledger = <<>>)
            => (last'.status = 404 /\ ledger' = ledger)
       /\ (last'.gateway = "succeeded" /\ last'.status = 200)
            => /\ last'.body.success
               /\ last'.body.donation.status = "completed"
               /\ ledger'[last'.body.donation.id].status = "completed"]_vars

\* C15: a create-payment-intent request passes the strict payment limiter
\* and a statistics request passes the lenient limiter before its handler.
C15_EndpointsRateLimited ==
  /\ last.op = "create" => "rateLimitPayments" \in LimitersOf("create")
  /\ last.op = "stats" => "lenient" \in LimitersOf("stats")

\* C16: no entry the recent-donations endpoint returns for a donation stored
\* with anonimo = true carries the donor's name; its name is the
\* placeholder 'Anonimo'.
C16_AnonymousNameHidden ==
  (last.op = "recent" /\ last.status = 200) =>
    LET d == last.body.donations IN
    /\ \A k \in 1..Len(d) :
         /\ DOMAIN d[k] = {"name", "amount", "date", "category"}
         /\ \A i \in 1..Len(ledger) :
              ledger[i].anonimo => d[k].name # ledger[i].nome
    /\ \E q \in Queries :
         LET rows == RecentRows(ledger, q) IN
         /\ Len(rows) = Len(d)
         /\ \A k \in 1..Len(d) :
              ledger[rows[k]].anonimo => d[k].name = "Anonimo"

C16_Witness ==
  /\ last.op = "recent" /\ last.status = 200
  /\ \E k \in 1..Len(last.body.donations) :
       last.body.donations[k].name = "Anonimo"
  /\ \E k \in 1..Len(last.body.donations) :
       last.body.donations[k].name = "Bob Ray"
  /\ \E i \in 1..Len(ledger) :
       ledger[i].anonimo /\ ledger[i].status = "completed"

\* C17: whatever the limit parameter, the recent-donations endpoint returns
\* completed donations only and at most 50 of them, at most 10 when the
\* parameter is absent or not a number.
C17_RecentBounded ==
  /\ (last.op = "recent" /\ last.status = 200) =>
       /\ last.body.count <= MaxLimit
       /\ last.body.count <= Cardinality(Completed(ledger))
  /\ \A q \in Queries :
       \A k \in 1..Len(RecentRows(ledger, q)) :
         ledger[RecentRows(ledger, q)[k]].status = "completed"
  /\ \A q \in {NoParam, <<"a">>} :
       Len(RecentRows(ledger, q)) <= DefaultLimit

\* C18: no response of the beneficiary endpoint or of create-payment-intent
\* holds the full IBAN; the account information sent is the mask followed
\* by the IBAN's last 4 characters.
C18_FullIbanWithheld ==
  (last.op \in {"beneficiary", "create"} /\ last.status = 200) =>
    LET b == last.body.beneficiary
        n == Len(BENEFICIARY_IBAN)
    IN /\ \A f \in DOMAIN b : b[f] # BENEFICIARY_IBAN
       /\ b.iban = Mask \o SubSeq(BENEFICIARY_IBAN, n - 3, n)

\* C24: no request to the donation endpoints removes a donation row: the
\* donations of the ledger stay, each under its id.
C24_RowsNeverRemoved ==
  [][/\ Len(ledger') >= Len(ledger)
     /\ \A i \in 1..Len(ledger) :
          ledger'[i].stripePaymentIntentId = ledger[i].stripePaymentIntentId]_vars

C24_Witness ==
  /\ last.op = "webhook" /\ last.verified /\ ~last.dbError
  /\ last.ev.type = "charge.refunded"
  /\ last.prevStatus = "completed"
  /\ \E i \in 1..Len(ledger) :
       /\ ledger[i].stripeChargeId = last.ev.charge
       /\ ledger[i].status = "refunded"

\* C25: each payment_intent.payment_failed webhook applied to a donation
\* raises its tentativi by exactly one over the stored value (k failed
\* attempts leave k), and tentativi is never negative.
C25_FailedAttemptsCounted ==
  [][/\ (/\ last'.op = "webhook" /\ last'.verified /\ ~last'.dbError
          /\ last'.ev.type = "payment_intent.payment_failed"
          /\ last'.prevStatus # "none"
          /\ last' # last)
         => LET i == FindByIntent(ledger, last'.ev.id) IN
            ledger'[i].tentativi = ledger[i].tentativi + 1
     /\ \A i \in 1..Len(ledger') : ledger'[i].tentativi >= 0]_vars

\* C26: a webhook delivery writes its donation's row only as the
\* transition from the status the event expects: of two deliveries of one
\* event, the first performs the transition and the second leaves the
\* row unmodified.
C26_DeliveryIsCompareAndSet ==
  [][last'.op = "webhook" =>
       /\ \A i \in 1..Len(ledger) :
            (i <= Len(ledger') /\ ledger'[i] # ledger[i])
              => <<ledger[i].status, ledger'[i].status>> \in AllowedEdges
       /\ last'.replay => ledger' = ledger]_vars

\* C29: once a create-payment-intent request for which the gateway created
\* an intent has completed, a donation row holds that intent's id, and the
\* request was not answered with an error.
C29_IntentHasRow ==
  [][(inflight # NoInflight /\ inflight' = NoInflight) =>
       /\ last'.op = "create" /\ last'.status = 200
       /\ FindByIntent(ledger', inflight.intent) # 0]_vars

\* C30: a donation becomes completed only through a verified
\* payment_intent.succeeded webhook for its intent or a confirm-payment
\* request whose retrieve call reported succeeded; a confirm-payment
\* request for an intent not reported as succeeded changes no row.
C30_CompletedOnlyOnGatewaySuccess ==
  [][/\ \A i \in 1..Len(ledger') :
          (/\ ledger'[i].status = "completed"
           /\ (i > Len(ledger) \/ ledger[i].status # "completed"))
            => \/ /\ last'.op = "webhook" /\ last'.verified
                  /\ last'.ev.type = "payment_intent.succeeded"
                  /\ last'.ev.id = ledger'[i].stripePaymentIntentId
               \/ /\ last'.op = "confirm"
                  /\ last'.gateway = "succeeded"
     /\ (last'.op = "confirm" /\ last'.gateway # "succeeded")
          => ledger' = ledger]_vars

C30_Witness ==
  /\ last.op = "confirm" /\ last.gateway = "succeeded" /\ last.status = 200
  /\ ledger[last.body.donation.id].status = "completed"
  /\ ledger[last.body.donation.id].dataPagamento = now

\* ----------------------------------------------- the limiter on its own
LimiterInit ==
  /\ ledger = <<>>
  /\ intents = 0
  /\ inflight = NoInflight
  /\ now = 0
  /\ auditLog = <<>>
  /\ last = NoRequest
  /\ limiter \in LimiterConfigs
  /\ limOut = NoCall
  /\ writers = NoWriters
  /\ dayRead = NoRead

LimiterTick ==
  /\ now < MaxClock
  /\ now' = now + 1
  /\ UNCHANGED <<ledger, intents, inflight, auditLog, last, limiter, limOut,
                 writers, dayRead>>

\* A request of one client through the limiter's middleware.
LimiterRequest ==
  \E ip \in Clients :
    LET r == middleware(limiter, ip, DateNow(now)) IN
    /\ r.current <= MaxCount
    /\ limiter' = [limiter EXCEPT !.store = r.store]
    /\ limOut' = [NoCall EXCEPT !.op = "request", !.client = ip,
                                !.next = r.next, !.status = r.status,
                                !.retryAfter = r.retryAfter,
                                !.current = r.current,
                                !.remaining = r.remaining,
                                !.limit = r.limit, !.reset = r.reset]
    /\ UNCHANGED <<ledger, intents, inflight, now, auditLog, last, writers,
                   dayRead>>

LimiterReset ==
  \E ip \in Clients :
    LET r == reset(limiter, ip) IN
    /\ limiter' = [limiter EXCEPT !.store = r.store]
    /\ limOut' = [NoCall EXCEPT !.op = "reset", !.client = ip,
                                !.result = r.result]
    /\ UNCHANGED <<ledger, intents, inflight, now, auditLog, last, writers,
                   dayRead>>

LimiterResetAll ==
  /\ limiter' = [limiter EXCEPT !.store = resetAll(limiter)]
  /\ limOut' = [NoCall EXCEPT !.op = "resetAll"]
  /\ UNCHANGED <<ledger, intents, inflight, now, auditLog, last, writers,
                 dayRead>>

ReadNext ==
  \/ RecentDonations
  \/ DonationStats
  \/ BeneficiaryInfo
  \/ RateLimited

ReadSpec == ReadInit /\ [][ReadNext]_vars

LimiterNext ==
  \/ LimiterTick
  \/ LimiterRequest
  \/ LimiterReset
  \/ LimiterResetAll

LimiterSpec == LimiterInit /\ [][LimiterNext]_vars

\* The requests client c has made in the window that is open at time t.
InWindow(lm, c, t) == c \in DOMAIN lm.store /\ t <= lm.store[c].resetTime

CountInWindow(lm, c, t) == IF InWindow(lm, c, t) THEN lm.store[c].count ELSE 0

\* C13: for a limiter with maxRequests = M and a window W and any client,
\* the first M requests of a window are passed on, every further request
\* inside the window is answered 429 with a retryAfter (the window's
\* remaining time in whole seconds, rounded up), and the first request
\* after the window has elapsed is passed on with the count back at 1.
C13_WindowLimit ==
  [][(limOut'.op = "request" /\ now' = now) =>
      LET c == limOut'.client
          t == DateNow(now)
          n == CountInWindow(limiter, c, t)
          M == limiter.maxRequests
      IN /\ limiter'.store[c].count = n + 1
         /\ limOut'.current = n + 1
         /\ n < M => (limOut'.next /\ limOut'.status # 429)
         /\ n >= M =>
              /\ ~limOut'.next
              /\ limOut'.status = 429
              /\ limOut'.retryAfter >= 0
              /\ limOut'.retryAfter * MsPerSecond
                   >= limiter.store[c].resetTime - t
              /\ (limOut'.retryAfter - 1) * MsPerSecond
                   < limiter.store[c].resetTime - t
         /\ ~InWindow(limiter, c, t) =>
              /\ limOut'.next
              /\ limiter'.store[c].count = 1
              /\ limiter'.store[c].resetTime = t + limiter.windowMs]_vars

C13_Witness ==
  /\ limOut.op = "request"
  /\ limOut.status = 429
  /\ limOut.current = limiter.maxRequests + 2
  /\ limOut.retryAfter = 1
  /\ \E d \in DOMAIN limiter.store :
       d # limOut.client /\ limiter.store[d].count = 1 /\ now > 1

\* C14: reset(client) removes that client's record only, so that the
\* client's next request is the first of a fresh window while every other
\* client's count and reset time stay as they were, and it returns true
\* exactly when a record existed; resetAll() removes every record.
C14_ResetFrame ==
  [][/\ (limOut'.op = "reset" /\ now' = now) =>
          LET c == limOut'.client IN
          /\ limOut'.result = (c \in DOMAIN limiter.store)
          /\ DOMAIN limiter'.store = DOMAIN limiter.store \ {c}
          /\ \A d \in DOMAIN limiter'.store :
               limiter'.store[d] = limiter.store[d]
          /\ middleware(limiter', c, DateNow(now)).current = 1
          /\ middleware(limiter', c, DateNow(now)).next
     /\ (limOut'.op = "resetAll" /\ now' = now) =>
          DOMAIN limiter'.store = {}]_vars

C14_Witness ==
  /\ limOut.op = "reset"
  /\ limOut.result
  /\ limOut.client \notin DOMAIN limiter.store
  /\ \E d \in DOMAIN limiter.store :
       /\ limiter.store[d].count > limiter.maxRequests
       /\ DateNow(now) <= limiter.store[d].resetTime

\* The limiter as client c alone has used it: the store without the
\* records of the other clients.
OwnView(lm, c) ==
  [lm EXCEPT !.store = [d \in DOMAIN lm.store \cap {c} |-> lm.store[d]]]

\* C27: the limiter counts each client separately: a request of client c
\* is passed or rejected, and given its limit, remaining, reset and
\* retryAfter values, as if c were the limiter's only client, and it
\* leaves the record of every other client as it was.
C27_ClientsIndependent ==
  [][(limOut'.op = "request" /\ now' = now) =>
      LET c == limOut'.client
          r == middleware(OwnView(limiter, c), c, DateNow(now))
      IN /\ limOut'.next = r.next
         /\ limOut'.status = r.status
         /\ limOut'.retryAfter = r.retryAfter
         /\ limOut'.limit = r.limit
         /\ limOut'.current = r.current
         /\ limOut'.remaining = r.remaining
         /\ limOut'.reset = r.reset
         /\ limiter'.store[c] = r.store[c]
         /\ \A d \in DOMAIN limiter.store \ {c} :
              /\ d \in DOMAIN limiter'.store
              /\ limiter'.store[d] = limiter.store[d]]_vars

C27_Witness ==
  /\ limOut.op = "request" /\ limOut.next /\ limOut.current = 1
  /\ \E d \in DOMAIN limiter.store :
       /\ d # limOut.client
       /\ limiter.store[d].count > limiter.maxRequests
       /\ DateNow(now) <= limiter.store[d].resetTime

\* C28: every 429 of the limiter carries a retryAfter of at least one
\* second, the remaining time of the client's window rounded up to whole
\* seconds, and the remaining value reported is never negative.
C28_RetryAfterAtLeastOne ==
  /\ limOut.remaining >= 0
  /\ (limOut.op = "request" /\ limOut.status = 429) =>
       /\ limOut.retryAfter >= 1
       /\ limOut.retryAfter * MsPerSecond
            >= limiter.store[limOut.client].resetTime - DateNow(now)

\* -------------------------------------------- the logger on its own
\* The tokens of the log files the logger's runs start from, and the
\* files: none, empty, or any text of at most MaxFile tokens (whole,
\* cut-off and damaged lines).
Alphabet == {Header, "{", "}", NewLine, Blank}

Files == {NoFile} \cup UNION {[1..k -> Alphabet] : k \in 0..MaxFile}

LogInit ==
  /\ ledger = <<>>
  /\ intents = 0
  /\ inflight = NoInflight
  /\ now = 0
  /\ auditLog \in Files
  /\ last = NoRequest
  /\ limiter = lenientLimiter
  /\ limOut = NoCall
  /\ writers = NoWriters
  /\ dayRead = NoRead

\* logTransaction up to the line it is about to write (55-70).
LogFormat ==
  \E w \in Writers :
   \E call \in CallsOf[w] :
    /\ writers[w].pc = "idle"
    /\ writers' = [writers EXCEPT ![w] = [pc |-> "formatted", call |-> call,
                                          line |-> logLine(call)]]
    /\ UNCHANGED <<ledger, intents, inflight, now, auditLog, last, limiter,
                   limOut, dayRead>>

\* logTransaction's fs.appendFileSync (73).
LogAppend ==
  \E w \in Writers :
    /\ writers[w].pc = "formatted"
    /\ auditLog' = appendFileSync(auditLog, writers[w].line)
    /\ writers' = [writers EXCEPT ![w].pc = "done"]
    /\ UNCHANGED <<ledger, intents, inflight, now, last, limiter, limOut,
                   dayRead>>

\* A call of readDayTransactions for the day.
ReadDay ==
  /\ dayRead' = readDayTransactions(auditLog)
  /\ UNCHANGED <<ledger, intents, inflight, now, auditLog, last, limiter,
                 limOut, writers>>

LogNext ==
  \/ LogFormat
  \/ LogAppend
  \/ ReadDay

LogSpec == LogInit /\ [][LogNext]_vars

\* C21: every lifecycle step of a donation (the gateway intent created,
\* the row created, a payment confirmed, a verified webhook received or
\* failing) adds an entry to the transaction log.
C21_EveryStepLogged ==
  [][(\/ intents' # intents
      \/ ledger' # ledger
      \/ (last' # last /\ last'.op = "webhook" /\ last'.verified))
       => Len(readDayTransactions(auditLog'))
            > Len(readDayTransactions(auditLog))]_vars

\* The text of a file, none for a missing one; a file whose last line is
\* whole.
Bytes(file) == IF file = NoFile THEN <<>> ELSE file

LineComplete(file) ==
  Bytes(file) = <<>> \/ file[Len(file)] = NewLine

WellFormed(line) ==
  \E k \in 1..Len(line) :
    /\ \A i \in 1..(k - 1) : line[i] # "{"
    /\ IsObject(SubSeq(line, k, Len(line)))

EntryOf(line) ==
  LET k == CHOOSE j \in 1..Len(line) :
             /\ \A i \in 1..(j - 1) : line[i] # "{"
             /\ IsObject(SubSeq(line, j, Len(line)))
  IN SelectSeq(SubSeq(line, k + 1, Len(line) - 1), NotBlank)

EntriesOf(file) ==
  IF file = NoFile THEN <<>>
  ELSE LET wf == SelectSeq(Split(file), WellFormed)
       IN [i \in 1..Len(wf) |-> EntryOf(wf[i])]

\* C23: readDayTransactions returns, in file order, exactly the entries
\* of the well-formed lines of the day's log, skipping every other line,
\* and the empty list for a day without a log file.
C23_ReadSkipsMalformed ==
  [][dayRead' # dayRead => dayRead' = EntriesOf(auditLog)]_vars

C23_Witness ==
  /\ dayRead = readDayTransactions(auditLog)
  /\ Len(dayRead) = 2
  /\ LET lines == Split(auditLog) IN
     \E i, j, k \in 1..Len(lines) :
       /\ i < j /\ j < k
       /\ WellFormed(lines[i]) /\ WellFormed(lines[k])
       /\ Trimmed(lines[j]) /\ ~WellFormed(lines[j])
       /\ Has(lines[j], "PAYMENT_ERROR")

Next ==
  \/ Tick
  \/ CreateRejected
  \/ CreateGatewayOk
  \/ CreateGatewayFails
  \/ CreateSave
  \/ ConfirmPayment
  \/ Webhook
  \/ RateLimited

Spec == Init /\ [][Next]_vars
====
